---- MODULE Spec2Model ----
(***************************************************************************)
(* Checkpointed incremental extraction (comboi connectors) and the GDPR    *)
(* column-policy engine.                                                   *)
(*                                                                         *)
(* One table and one checkpoint key are modelled.  A source row is         *)
(* identified by the value of its incremental column (a monotonically      *)
(* increasing identifier); the source grows while exports run.             *)
(* export_table is split at the points where the code talks to DuckDB or   *)
(* to the checkpoint store, so that inserts, exceptions and crashes can    *)
(* fall between any two of its statements.                                 *)
(***************************************************************************)
EXTENDS Integers, Sequences, FiniteSets, TLC

\* Largest value of the incremental column a source row may carry.
MaxVal == 3

VARIABLES
    source,        \* rows present in the source table / extracted files
    checkpoint,    \* value stored for checkpoint_key: <<>> absent, <<v>> the string of v
    pc,            \* position of the running export_table call, "idle" between calls
    variant,       \* "live" (BaseConnector) or "sap" (SAPB1Connector)
    incremental,   \* checkpoint_key and incremental_column are both given
    apply_gdpr,    \* SAPB1Connector.apply_gdpr
    gdpr_config,   \* get_sap_b1_table_config(table): {} for None, {rule} otherwise
    last_value,    \* local last_value of the call
    final_query,   \* select list of the query handed to COPY
    snapshot,      \* the source rows as this call's COPY found them
    written,       \* rows materialized at the destination by this call
    dest_columns,  \* select items of the file written by this call
    executed,      \* statements this call has executed on its connection
    con,           \* "none", "open" or "closed": the call's DuckDB connection
    committed,     \* values this call has passed to checkpoint_store.update
    outcome,       \* how the last call ended: "none", "ok", "raised", "crashed"
    failedAt,      \* pc at which the last call raised or crashed
    ckBefore,      \* checkpoint when the current call started
    delivered,     \* rows written by some COPY that completed
    prev,          \* rows the previous call wrote, when it stopped after its COPY
    hash_in,       \* a cell to pseudonymize: its value, the algorithm, its column
    py_out,        \* what pseudonymize_value returned for hash_in, {} before the call
    sql_out,       \* what the emitted hash expression evaluates to, {} before
    impl,          \* which package's stage runs: "comboi" or "ducksrvls"
    tier,          \* "silver" or "gold": the stage that runs
    transforms,    \* the stage's configured transformations, in configured order
    dbt_project,   \* dbt_project_path.exists()
    spc,           \* position of the stage run: "idle", "start", "bruin", "dbt",
                   \* "loop", "done" (returned) or "failed" (raised)
    step,          \* position inside one loop iteration
    idx,           \* index of the loop iteration, from 1
    bruin_outputs, \* names of the artifacts the bruin runner has produced
    dbt_outputs,   \* names of the artifacts the dbt runner has produced
    outputs,       \* the list the stage returns: the URIs upload gave back
    events,        \* what the run has done so far, in order
    deduped,       \* artifacts whose local file was replaced by its deduplication
    lake,          \* the objects in the data lake: the URIs uploaded and not deleted
    tier_filter,   \* the tiers a pipeline run was asked for
    dpc,           \* position of the pipeline run: "idle", "run", "done", "failed"
    tier_pos,      \* index in TierOrder of the tier the driver is at
    invoked,       \* the tiers whose run was invoked, in order
    tier_raised,   \* the tiers whose run raised
    published,     \* the locations the pipeline run has collected
    quality_module,\* "customers" or "orders": whose check function runs
    ds_columns,    \* columns of the dataset view handed to check
    ds_rows,       \* rows of the dataset view
    cpc,           \* position inside check: the statement it is about to execute
    checks,        \* the local list `checks`
    result,        \* what check returned, {} before it returns
    contract,      \* the contract generated for the dataset, {} before
    sessions,      \* the concurrent calls: what each is, where it stands, its `con`
    conns          \* the DuckDB connections ever opened: open or not, and the
                   \* views and attachments made on each

\* The state of the connectors and of one export_table call.
connectorVars == <<source, checkpoint, pc, variant, incremental, apply_gdpr,
                   gdpr_config, last_value, final_query, snapshot, written,
                   dest_columns, executed, con, committed, outcome, failedAt,
                   ckBefore, delivered, prev>>

\* The state of one pseudonymization of a single value.
hashVars == <<hash_in, py_out, sql_out>>

\* The state of one stage run.
stageVars == <<impl, tier, transforms, dbt_project, spc, step, idx,
               bruin_outputs, dbt_outputs, outputs, events, deduped, lake>>

\* The state of one pipeline run.
driverVars == <<tier_filter, dpc, tier_pos, invoked, tier_raised, published>>

\* The state of one call of a quality check function.
checkVars == <<quality_module, ds_columns, ds_rows, cpc, checks, result, contract>>

\* The state of calls running side by side, each on its DuckDB connection.
sessionVars == <<sessions, conns>>

\* Everything an export_table call leaves alone.
nonConnectorVars == <<hashVars, stageVars, driverVars, checkVars, sessionVars>>

\* Everything a pseudonymization leaves alone.
nonHashVars == <<connectorVars, stageVars, driverVars, checkVars, sessionVars>>

\* Everything a stage run leaves alone.
nonStageVars == <<connectorVars, hashVars, driverVars, checkVars, sessionVars>>

\* Everything a pipeline run leaves alone, the tiers' own state aside.
nonDriverVars == <<connectorVars, hashVars, stageVars, checkVars, sessionVars>>

\* Everything a quality check function leaves alone.
nonCheckVars == <<connectorVars, hashVars, stageVars, driverVars, sessionVars>>

\* Everything the concurrent calls leave alone.
nonSessionVars == <<connectorVars, hashVars, stageVars, driverVars, checkVars>>

vars == <<connectorVars, hashVars, stageVars, driverVars, checkVars, sessionVars>>

Values == 0..MaxVal

----------------------------------------------------------------------------
(* Values, strings and truthiness *)

\* Python None / the store's "absent"; also the empty string.
Absent == <<>>

\* str(v): the watermark serialized as a string (a one-element sequence here).
Str(v) == <<v>>

\* The quoted literal '{last_value}' cast by DuckDB to the column's type.
SqlCast(s) == s[1]

\* Python truthiness of a string or None: `if last_value:`.
TruthyStr(s) == s /= Absent

\* fetchone() of a MAX query: <<>> when result[0] is NULL, else <<result[0]>>.
NullResult == <<>>

\* `if result and result[0]:` -- NULL and 0 are both falsy.
TruthyResult(r) == r /= NullResult /\ r[1] /= 0

SetMax(S) == CHOOSE m \in S : \A x \in S : x <= m

----------------------------------------------------------------------------
(* The policy engine: GDPRProcessor.apply_gdpr_rules *)

\* Source columns in DESCRIBE order.
all_columns == <<"id", "name", "ssn", "email">>

ColumnSet == {all_columns[i] : i \in 1..Len(all_columns)}

SupportedAlgorithms == {"sha256", "sha512", "md5"}

\* hash_algorithm values a configuration may carry; "sha1" is not supported.
Algorithms == SupportedAlgorithms \cup {"sha1"}

Rules == [retain_all : BOOLEAN,
          exclude_columns : SUBSET ColumnSet,
          pseudonymize : SUBSET ColumnSet,
          retain : SUBSET ColumnSet,
          hash_algorithm : Algorithms]

\* A select item: output name, source column, and the function applied ("" as-is).
AsIs(c) == [name |-> c, col |-> c, fn |-> ""]

HashName(c) == c \o "_Hash"

HashItem(c, f) == [name |-> HashName(c), col |-> c, fn |-> f]

\* Variant of PseudonymizePart in which an unsupported algorithm falls through
\* to the as-is branch (the `continue` placed inside the if/elif arms).
PseudonymizePartFallThrough(c, algorithm) ==
    IF algorithm = "sha256" THEN <<HashItem(c, "SHA256")>>
    ELSE IF algorithm = "sha512" THEN <<HashItem(c, "SHA512")>>
    ELSE IF algorithm = "md5" THEN <<HashItem(c, "MD5")>>
    ELSE <<AsIs(c)>>

\* The hash expression emitted for a pseudonymized column, none for an
\* algorithm outside sha256/sha512/md5 (the if/elif chain has no else).
PseudonymizePart(c, algorithm) ==
    IF algorithm = "sha256" THEN <<HashItem(c, "SHA256")>>
    ELSE IF algorithm = "sha512" THEN <<HashItem(c, "SHA512")>>
    ELSE IF algorithm = "md5" THEN <<HashItem(c, "MD5")>>
    ELSE <<>>

\* One iteration of the loop over all_columns.keys().
SelectPart(c, rule) ==
    IF c \in rule.exclude_columns THEN <<>>
    ELSE IF c \in rule.pseudonymize THEN PseudonymizePart(c, rule.hash_algorithm)
    ELSE IF rule.retain /= {} /\ c \in rule.retain THEN <<AsIs(c)>>
    ELSE IF rule.retain = {} THEN <<AsIs(c)>>
    ELSE <<>>

RECURSIVE SelectParts(_, _)
SelectParts(cols, rule) ==
    IF cols = <<>> THEN <<>>
    ELSE SelectPart(Head(cols), rule) \o SelectParts(Tail(cols), rule)

\* SELECT * FROM table: every source column as-is.
SelectStar == [i \in 1..Len(all_columns) |-> AsIs(all_columns[i])]

\* Variant of GdprRaises without the check for an empty select list.
GdprNeverRaises(rule) == FALSE

\* apply_gdpr_rules raises ValueError when select_parts is empty.
GdprRaises(rule) == ~rule.retain_all /\ SelectParts(all_columns, rule) = <<>>

\* Variant of apply_gdpr_rules without the early return for retain_all.
apply_gdpr_rules_no_retain_all(rule) == SelectParts(all_columns, rule)

\* The select list of the query apply_gdpr_rules returns.
apply_gdpr_rules(rule) ==
    IF rule.retain_all THEN SelectStar ELSE SelectParts(all_columns, rule)

----------------------------------------------------------------------------
(* Queries *)

\* Variant of IncrementalFilter with >= in place of >.
IncrementalFilterInclusive(rows, lv) ==
    IF TruthyStr(lv) THEN {r \in rows : r >= SqlCast(lv)} ELSE rows

\* WHERE incremental_column > 'last_value', applied when last_value is truthy.
IncrementalFilter(rows, lv) ==
    IF TruthyStr(lv) THEN {r \in rows : r > SqlCast(lv)} ELSE rows

\* SELECT MAX(incremental_column) over the (filtered) source as it is now.
MaxQuery(rows, lv) ==
    IF IncrementalFilter(rows, lv) = {} THEN NullResult
    ELSE <<SetMax(IncrementalFilter(rows, lv))>>

----------------------------------------------------------------------------
(* The checkpoint store (comboi.checkpoint.CheckpointStore) *)

\* get(key): the stored value or absent.
StoreGet == checkpoint

\* update(key, value): replaces any prior value, serialized as a string.
StoreUpdate(v) == Str(v)

----------------------------------------------------------------------------
(* Initial states *)

\* Rules the pipeline specification exercises: the documented example, a
\* retain_all rule and a rule that leaves no column.
ExampleRule == [retain_all |-> FALSE, exclude_columns |-> {"ssn"},
                pseudonymize |-> {"name"}, retain |-> {"id"},
                hash_algorithm |-> "sha256"]

RetainAllRule == [retain_all |-> TRUE, exclude_columns |-> {},
                  pseudonymize |-> {}, retain |-> {},
                  hash_algorithm |-> "sha256"]

EmptyingRule == [retain_all |-> FALSE, exclude_columns |-> ColumnSet,
                 pseudonymize |-> {}, retain |-> {},
                 hash_algorithm |-> "sha256"]

\* Python None and SQL NULL as a cell value.
None == <<>>

\* No cell has been handed to the pseudonymization.
NoCell == [value |-> None, algorithm |-> "sha256", col |-> "id"]

\* Nothing to remember of the previous call.
NoPrev == [interrupted |-> FALSE, incremental |-> FALSE, written |-> {}]

InitWith(rows, configs) ==
    /\ source = rows
    /\ checkpoint = Absent
    /\ pc = "idle"
    /\ variant = "live"
    /\ incremental = FALSE
    /\ apply_gdpr = FALSE
    /\ gdpr_config \in configs
    /\ last_value = Absent
    /\ final_query = <<>>
    /\ snapshot = {}
    /\ written = {}
    /\ dest_columns = <<>>
    /\ executed = {}
    /\ con = "none"
    /\ committed = <<>>
    /\ outcome = "none"
    /\ failedAt = "idle"
    /\ ckBefore = Absent
    /\ delivered = {}
    /\ prev = NoPrev

\* No value is being pseudonymized.
HashIdle ==
    /\ hash_in = NoCell
    /\ py_out = {}
    /\ sql_out = {}

\* No stage is running.
StageIdle ==
    /\ impl = "comboi"
    /\ tier = "silver"
    /\ transforms = <<>>
    /\ dbt_project = FALSE
    /\ spc = "idle"
    /\ step = "none"
    /\ idx = 0
    /\ bruin_outputs = <<>>
    /\ dbt_outputs = <<>>
    /\ outputs = <<>>
    /\ events = <<>>
    /\ deduped = {}
    /\ lake = {}

\* No pipeline run is in progress.
DriverIdle ==
    /\ tier_filter = {}
    /\ dpc = "idle"
    /\ tier_pos = 0
    /\ invoked = <<>>
    /\ tier_raised = {}
    /\ published = <<>>

\* No quality check function is running.
CheckIdle ==
    /\ quality_module = "customers"
    /\ ds_columns = {}
    /\ ds_rows = <<>>
    /\ cpc = "idle"
    /\ checks = <<>>
    /\ result = {}
    /\ contract = {}

\* No calls run side by side.
SessionIdle ==
    /\ sessions = <<>>
    /\ conns = <<>>

\* The parts of the state an export_table call never touches, at rest.
OthersIdle == HashIdle /\ StageIdle /\ DriverIdle /\ CheckIdle /\ SessionIdle

Init == InitWith({}, {{}, {ExampleRule}, {EmptyingRule}}) /\ OthersIdle

----------------------------------------------------------------------------
(* The environment *)

\* A row is added to the source; identifiers only grow.
Insert ==
    /\ \E v \in Values :
          /\ \A r \in source : r < v
          /\ source' = source \cup {v}
    /\ UNCHANGED <<checkpoint, pc, variant, incremental, apply_gdpr, gdpr_config,
                   last_value, final_query, snapshot, written, dest_columns, executed, con,
                   committed, outcome, failedAt, ckBefore, delivered, prev>>
    /\ UNCHANGED nonConnectorVars

----------------------------------------------------------------------------
(* export_table, statement by statement *)

\* Entry of export_table: mkdir, read table_cfg, last_value = None.
StartExport(v, inc, gdpr) ==
    /\ pc = "idle"
    /\ pc' = "get"
    /\ variant' = v
    /\ incremental' = inc
    /\ apply_gdpr' = gdpr
    /\ last_value' = Absent
    /\ final_query' = <<>>
    /\ snapshot' = {}
    /\ written' = {}
    /\ dest_columns' = <<>>
    /\ executed' = {}
    /\ con' = "none"
    /\ committed' = <<>>
    /\ outcome' = "none"
    /\ failedAt' = "idle"
    /\ ckBefore' = checkpoint
    /\ prev' = IF outcome \in {"raised", "crashed"} /\ "COPY" \in executed
                   THEN [interrupted |-> TRUE, incremental |-> incremental,
                         written |-> written]
                   ELSE NoPrev
    /\ UNCHANGED <<source, checkpoint, gdpr_config, delivered>>
    /\ UNCHANGED nonConnectorVars

Start ==
    \E v \in {"live", "sap"}, inc \in BOOLEAN, gdpr \in BOOLEAN :
        /\ v = "live" => ~gdpr
        /\ StartExport(v, inc, gdpr)

\* Variant of GetCheckpoint that commits the source's current maximum before
\* anything is materialized.
GetCheckpointEager ==
    /\ pc = "get"
    /\ last_value' = IF incremental THEN StoreGet ELSE Absent
    /\ checkpoint' = IF incremental /\ source /= {} /\ SetMax(source) /= 0
                        THEN StoreUpdate(SetMax(source)) ELSE checkpoint
    /\ con' = "open"
    /\ pc' = "connect"
    /\ UNCHANGED <<source, variant, incremental, apply_gdpr,
                   gdpr_config, final_query, snapshot, written, dest_columns,
                   executed, committed, outcome, failedAt, ckBefore, delivered,
                   prev>>
    /\ UNCHANGED nonConnectorVars

\* Variant of GetCheckpoint that reads the store whether or not the export
\* is incremental.
GetCheckpointAlways ==
    /\ pc = "get"
    /\ last_value' = StoreGet
    /\ con' = "open"
    /\ pc' = "connect"
    /\ UNCHANGED <<source, checkpoint, variant, incremental, apply_gdpr,
                   gdpr_config, final_query, snapshot, written, dest_columns, executed,
                   committed, outcome, failedAt, ckBefore, delivered, prev>>
    /\ UNCHANGED nonConnectorVars

\* `if checkpoint_key and incremental_column: last_value = store.get(key)`,
\* then duckdb.connect().
GetCheckpoint ==
    /\ pc = "get"
    /\ last_value' = IF incremental THEN StoreGet ELSE Absent
    /\ con' = "open"
    /\ pc' = "connect"
    /\ UNCHANGED <<source, checkpoint, variant, incremental, apply_gdpr,
                   gdpr_config, final_query, snapshot, written, dest_columns, executed,
                   committed, outcome, failedAt, ckBefore, delivered, prev>>
    /\ UNCHANGED nonConnectorVars

\* Variant of Propagate in which the checkpoint is committed on the way out
\* (the update moved into the finally block).
PropagateCommitting(kind) ==
    /\ pc' = "idle"
    /\ outcome' = kind
    /\ failedAt' = pc
    /\ con' = IF con = "open" /\ kind = "raised" THEN "closed" ELSE con
    /\ checkpoint' = IF incremental /\ source /= {} /\ SetMax(source) /= 0
                        THEN StoreUpdate(SetMax(source)) ELSE checkpoint
    /\ UNCHANGED <<source, variant, incremental, apply_gdpr,
                   gdpr_config, last_value, final_query, snapshot, written,
                   dest_columns, executed, committed, ckBefore, delivered, prev>>
    /\ UNCHANGED nonConnectorVars

\* The call leaves by an exception: `finally: con.close()` runs when the
\* connection was opened, and nothing else is touched.
Propagate(kind) ==
    /\ pc' = "idle"
    /\ outcome' = kind
    /\ failedAt' = pc
    /\ con' = IF con = "open" /\ kind = "raised" THEN "closed" ELSE con
    /\ UNCHANGED <<source, checkpoint, variant, incremental, apply_gdpr,
                   gdpr_config, last_value, final_query, snapshot, written, dest_columns,
                   executed, committed, ckBefore, delivered, prev>>
    /\ UNCHANGED nonConnectorVars

\* Variant of GetRaises that swallows the error and exports unfiltered.
GetRaisesFailOpen ==
    /\ pc = "get"
    /\ incremental
    /\ failedAt' = "get"
    /\ last_value' = Absent
    /\ con' = "open"
    /\ pc' = "connect"
    /\ UNCHANGED <<source, checkpoint, variant, incremental, apply_gdpr,
                   gdpr_config, final_query, snapshot, written, dest_columns,
                   executed, committed, outcome, ckBefore, delivered, prev>>
    /\ UNCHANGED nonConnectorVars

\* checkpoint_store.get raises (store unreachable).
GetRaises ==
    /\ pc = "get"
    /\ incremental
    /\ Propagate("raised")

\* INSTALL and LOAD of the DuckDB extension (live variant).
InstallLoad ==
    /\ pc = "connect"
    /\ variant = "live"
    /\ executed' = executed \cup {"INSTALL", "LOAD"}
    /\ pc' = "attach"
    /\ UNCHANGED <<source, checkpoint, variant, incremental, apply_gdpr,
                   gdpr_config, last_value, final_query, snapshot, written, dest_columns,
                   con, committed, outcome, failedAt, ckBefore, delivered, prev>>
    /\ UNCHANGED nonConnectorVars

\* ATTACH of the source database; the query handed to COPY selects every column.
Attach ==
    /\ pc = "attach"
    /\ executed' = executed \cup {"ATTACH"}
    /\ final_query' = SelectStar
    /\ pc' = "copy"
    /\ UNCHANGED <<source, checkpoint, variant, incremental, apply_gdpr,
                   gdpr_config, last_value, snapshot, written, dest_columns,
                   con, committed, outcome, failedAt, ckBefore, delivered, prev>>
    /\ UNCHANGED nonConnectorVars

\* Variant of BuildQuery that refuses a table for which no rule is configured.
BuildQueryFailClosed ==
    /\ pc = "connect"
    /\ variant = "sap"
    /\ IF apply_gdpr /\ gdpr_config /= {}
          THEN /\ pc' = "view"
               /\ UNCHANGED <<outcome, failedAt, con, final_query>>
          ELSE IF apply_gdpr
          THEN /\ pc' = "idle"
               /\ outcome' = "raised"
               /\ failedAt' = pc
               /\ con' = "closed"
               /\ final_query' = final_query
          ELSE /\ pc' = "copy"
               /\ final_query' = SelectStar
               /\ UNCHANGED <<outcome, failedAt, con>>
    /\ UNCHANGED <<source, checkpoint, variant, incremental, apply_gdpr,
                   gdpr_config, last_value, snapshot, written, dest_columns,
                   executed, committed, ckBefore, delivered, prev>>
    /\ UNCHANGED nonConnectorVars

\* SAP variant: base_query is built; with apply_gdpr and a rule the view is
\* created next, otherwise final_query = base_query.
BuildQuery ==
    /\ pc = "connect"
    /\ variant = "sap"
    /\ IF apply_gdpr /\ gdpr_config /= {}
          THEN /\ pc' = "view"
               /\ final_query' = final_query
          ELSE /\ pc' = "copy"
               /\ final_query' = SelectStar
    /\ UNCHANGED <<source, checkpoint, variant, incremental, apply_gdpr,
                   gdpr_config, last_value, snapshot, written, dest_columns, executed,
                   con, committed, outcome, failedAt, ckBefore, delivered, prev>>
    /\ UNCHANGED nonConnectorVars

\* CREATE OR REPLACE TEMP VIEW source_data AS base_query.
CreateView ==
    /\ pc = "view"
    /\ executed' = executed \cup {"VIEW"}
    /\ pc' = "rules"
    /\ UNCHANGED <<source, checkpoint, variant, incremental, apply_gdpr,
                   gdpr_config, last_value, final_query, snapshot, written, dest_columns,
                   con, committed, outcome, failedAt, ckBefore, delivered, prev>>
    /\ UNCHANGED nonConnectorVars

\* GDPRProcessor.apply_gdpr_rules(con, "source_data", gdpr_config): DESCRIBE,
\* then the select list, or ValueError when it is empty.
ApplyGdprRules ==
    /\ pc = "rules"
    /\ \E rule \in gdpr_config :
          IF GdprRaises(rule)
             THEN /\ pc' = "idle"
                  /\ outcome' = "raised"
                  /\ failedAt' = pc
                  /\ con' = "closed"
                  /\ final_query' = final_query
             ELSE /\ pc' = "copy"
                  /\ outcome' = outcome
                  /\ failedAt' = failedAt
                  /\ con' = con
                  /\ final_query' = apply_gdpr_rules(rule)
    /\ executed' = executed \cup {"DESCRIBE"}
    /\ UNCHANGED <<source, checkpoint, variant, incremental, apply_gdpr,
                   gdpr_config, last_value, snapshot, written, dest_columns,
                   committed, ckBefore, delivered, prev>>
    /\ UNCHANGED nonConnectorVars

\* COPY (final_query) TO destination: the filtered rows of the source as it
\* is now, projected through final_query.
Copy ==
    /\ pc = "copy"
    /\ snapshot' = source
    /\ written' = IncrementalFilter(source, last_value)
    /\ dest_columns' = final_query
    /\ delivered' = delivered \cup IncrementalFilter(source, last_value)
    /\ executed' = executed \cup {"COPY"}
    /\ pc' = "checkpoint"
    /\ UNCHANGED <<source, checkpoint, variant, incremental, apply_gdpr,
                   gdpr_config, last_value, final_query, con, committed,
                   outcome, failedAt, ckBefore, prev>>
    /\ UNCHANGED nonConnectorVars

\* Variant of NewCheckpoint whose MAX query reads the projected query: it
\* finds a maximum only where the incremental column is selected as it is.
NewCheckpointProjected(rows, lv) ==
    IF /\ \E i \in DOMAIN final_query :
             final_query[i].col = "id" /\ final_query[i].fn = ""
       /\ TruthyResult(MaxQuery(rows, lv))
    THEN <<MaxQuery(rows, lv)[1]>>
    ELSE <<>>

\* Variant of NewCheckpoint that passes every non-NULL maximum on.
NewCheckpointNonNull(rows, lv) ==
    IF MaxQuery(rows, lv) /= NullResult THEN <<MaxQuery(rows, lv)[1]>> ELSE <<>>

\* The value _update_checkpoint passes to update, <<>> when it passes none.
NewCheckpoint(rows, lv) ==
    IF TruthyResult(MaxQuery(rows, lv)) THEN <<MaxQuery(rows, lv)[1]>> ELSE <<>>

\* `if checkpoint_key and incremental_column: self._update_checkpoint(...)`,
\* then con.close() and return destination.
UpdateCheckpoint ==
    /\ pc = "checkpoint"
    /\ IF incremental
          THEN /\ executed' = executed \cup {"MAX"}
               /\ committed' = NewCheckpoint(source, last_value)
               /\ checkpoint' = IF NewCheckpoint(source, last_value) /= <<>>
                                   THEN StoreUpdate(NewCheckpoint(source, last_value)[1])
                                   ELSE checkpoint
          ELSE UNCHANGED <<executed, committed, checkpoint>>
    /\ con' = "closed"
    /\ outcome' = "ok"
    /\ pc' = "idle"
    /\ UNCHANGED <<source, variant, incremental, apply_gdpr, gdpr_config,
                   last_value, final_query, snapshot, written, dest_columns, failedAt,
                   ckBefore, delivered, prev>>
    /\ UNCHANGED nonConnectorVars

\* A DuckDB statement or checkpoint_store.update raises.
Raise ==
    /\ pc \in {"attach", "view", "rules", "copy", "checkpoint"} \/ (pc = "connect" /\ variant = "live")
    /\ pc = "checkpoint" => incremental
    /\ Propagate("raised")

\* The process dies in the middle of the call.
Crash ==
    /\ pc /= "idle"
    /\ Propagate("crashed")

Next ==
    \/ Insert
    \/ Start
    \/ GetCheckpoint
    \/ GetRaises
    \/ InstallLoad
    \/ Attach
    \/ BuildQuery
    \/ CreateView
    \/ ApplyGdprRules
    \/ Copy
    \/ UpdateCheckpoint
    \/ Raise
    \/ Crash

Spec == Init /\ [][Next]_vars

----------------------------------------------------------------------------
(* The policy engine exercised over every rule: one SAP export of a source  *)
(* that holds two rows, for each configuration the registry may return.     *)

AllConfigs == {{}} \cup {{r} : r \in Rules}

PolicyInit == InitWith(1..2, AllConfigs) /\ OthersIdle

PolicyStart ==
    \E gdpr \in BOOLEAN :
        /\ outcome = "none"
        /\ StartExport("sap", TRUE, gdpr)

PolicyNext ==
    \/ PolicyStart
    \/ GetCheckpoint
    \/ BuildQuery
    \/ CreateView
    \/ ApplyGdprRules
    \/ Copy
    \/ UpdateCheckpoint

PolicySpec == PolicyInit /\ [][PolicyNext]_vars

----------------------------------------------------------------------------
(* Repeated incremental SAP exports of a growing source, with the policy    *)
(* off or on, under rules that keep, drop or hash the incremental column.   *)

\* A rule that excludes the incremental column.
DropIdRule == [retain_all |-> FALSE, exclude_columns |-> {"id"},
               pseudonymize |-> {"name"}, retain |-> {},
               hash_algorithm |-> "sha256"]

\* A rule that pseudonymizes the incremental column.
HashIdRule == [retain_all |-> FALSE, exclude_columns |-> {"ssn"},
               pseudonymize |-> {"id"}, retain |-> {},
               hash_algorithm |-> "sha256"]

WatermarkConfigs == {{}, {ExampleRule}, {RetainAllRule}, {DropIdRule}, {HashIdRule}}

WatermarkInit == InitWith({}, WatermarkConfigs) /\ OthersIdle

WatermarkStart ==
    \E gdpr \in BOOLEAN : StartExport("sap", TRUE, gdpr)

WatermarkNext ==
    \/ Insert
    \/ WatermarkStart
    \/ GetCheckpoint
    \/ BuildQuery
    \/ CreateView
    \/ ApplyGdprRules
    \/ Copy
    \/ UpdateCheckpoint

WatermarkSpec == WatermarkInit /\ [][WatermarkNext]_vars

----------------------------------------------------------------------------
(* Pseudonymization of one value: GDPRProcessor.pseudonymize_value and the  *)
(* hash expression apply_gdpr_rules emits.  A Python or SQL value is <<>>   *)
(* for None / NULL and <<s>> for the string s; the hexadecimal digest of s  *)
(* under an algorithm is the pair <<algorithm, s>>.                         *)

\* Cell values a pseudonymized column may hold: NULL, '' and non-empty strings.
CellValues == {None, <<"">>, <<"a">>, <<"b">>, <<"abc">>}

\* hashlib.<algorithm>(str_value).hexdigest()
HexDigest(algorithm, value) == <<algorithm, value[1]>>

\* raise ValueError(f"Unsupported hashing algorithm: {algorithm}")
UnsupportedAlgorithm(algorithm) == <<"ValueError", "Unsupported hashing algorithm", algorithm>>

\* GDPRProcessor.pseudonymize_value(value, algorithm)
pseudonymize_value(value, algorithm) ==
    IF value = None \/ value = <<"">> THEN None
    ELSE IF algorithm = "sha256" THEN HexDigest("sha256", value)
    ELSE IF algorithm = "sha512" THEN HexDigest("sha512", value)
    ELSE IF algorithm = "md5" THEN HexDigest("md5", value)
    ELSE UnsupportedAlgorithm(algorithm)

\* The algorithm a SQL hash function computes.
SqlAlgorithm(fn) ==
    IF fn = "SHA256" THEN "sha256" ELSE IF fn = "SHA512" THEN "sha512" ELSE "md5"

\* DuckDB evaluating a select item on a cell: the column itself, or
\* FN(CAST(col AS VARCHAR)), which is NULL for NULL and the digest of the
\* string otherwise -- the empty string included.
EvalItem(item, value) ==
    IF item.fn = "" THEN value
    ELSE IF value = None THEN None
    ELSE HexDigest(SqlAlgorithm(item.fn), value)

HashInit ==
    /\ InitWith({}, {{}})
    /\ StageIdle
    /\ DriverIdle
    /\ CheckIdle
    /\ SessionIdle
    /\ hash_in \in [value : CellValues, algorithm : Algorithms, col : ColumnSet]
    /\ py_out = {}
    /\ sql_out = {}

\* pseudonymize_value is called on the cell.
PseudonymizeValue ==
    /\ py_out = {}
    /\ py_out' = {pseudonymize_value(hash_in.value, hash_in.algorithm)}
    /\ UNCHANGED <<nonHashVars, hash_in, sql_out>>

\* The expression emitted for the pseudonymized column is evaluated on the cell.
EvalHashExpression ==
    /\ sql_out = {}
    /\ PseudonymizePart(hash_in.col, hash_in.algorithm) /= <<>>
    /\ sql_out' = {EvalItem(PseudonymizePart(hash_in.col, hash_in.algorithm)[1],
                            hash_in.value)}
    /\ UNCHANGED <<nonHashVars, hash_in, py_out>>

HashNext ==
    \/ PseudonymizeValue
    \/ EvalHashExpression

HashSpec == HashInit /\ [][HashNext]_vars

----------------------------------------------------------------------------
(* One run of a stage: SilverStage.run and GoldStage.run of comboi and of   *)
(* ducksrvls.  A transformation is named by its position in the configured  *)
(* list; an artifact (the local parquet file) by the transformation that    *)
(* produced it.  The runners, the quality checks, the deduplication and the *)
(* upload may each fail, which the environment decides.                     *)

\* Longest configured list of transformations.
MaxTransforms == 2

\* "type" of a comboi entry; "other" stands for any value that is neither
\* "bruin" nor "dbt".  A ducksrvls dataset carries inline SQL and no type.
Types == {"bruin", "dbt", "other"}

\* What one entry of the configured list may declare, per package and stage.
Entries(im, ti) ==
    IF im = "comboi"
    THEN [type : Types, quality_checks : BOOLEAN,
          splink : IF ti = "silver" THEN BOOLEAN ELSE {FALSE}]
    ELSE [type : {"sql"},
          quality_checks : IF ti = "silver" THEN BOOLEAN ELSE {FALSE},
          splink : IF ti = "silver" THEN BOOLEAN ELSE {FALSE}]

\* The configured lists: entry i is named i.
StageConfigs(im, ti) ==
    UNION { { [i \in 1..n |-> [name |-> i, type |-> f[i].type,
                               quality_checks |-> f[i].quality_checks,
                               splink |-> f[i].splink]] :
              f \in [1..n -> Entries(im, ti)] } : n \in 0..MaxTransforms }

IsBruin(t) == t.type = "bruin"

IsDbt(t) == t.type = "dbt"

bruin_transforms == SelectSeq(transforms, IsBruin)

dbt_transforms == SelectSeq(transforms, IsDbt)

\* The loop walks the configured list as it stands.
all_transforms_configured == transforms

\* The list the loop walks: bruin entries then dbt entries in comboi, the
\* configured datasets or metrics in ducksrvls.
all_transforms ==
    IF impl = "comboi" THEN bruin_transforms \o dbt_transforms ELSE transforms

all_outputs == bruin_outputs \o dbt_outputs

Min(a, b) == IF a <= b THEN a ELSE b

\* Number of iterations: zip stops at the shorter list.
LoopLen ==
    IF impl = "comboi" THEN Min(Len(all_transforms), Len(all_outputs))
    ELSE Len(transforms)

\* trans_config and output_path of the current iteration.
trans_config == all_transforms[idx]

output_path == IF impl = "comboi" THEN all_outputs[idx] ELSE trans_config.name

\* The first thing an iteration does.
FirstStep ==
    IF impl = "ducksrvls" THEN "produce"
    ELSE IF tier = "silver" THEN "check" ELSE "upload"

\* One entry of the run's log.
Ev(kind, name, artifact) == [kind |-> kind, name |-> name, artifact |-> artifact]

\* remote_path_template formatted with the stage and the name, as the URI
\* that upload returns for it.
remote_uri(ti, name) == <<ti, name>>

StageInit ==
    /\ InitWith({}, {{}})
    /\ HashIdle
    /\ DriverIdle
    /\ CheckIdle
    /\ SessionIdle
    /\ impl \in {"comboi", "ducksrvls"}
    /\ tier \in {"silver", "gold"}
    /\ transforms \in StageConfigs(impl, tier)
    /\ dbt_project \in (IF impl = "comboi" THEN BOOLEAN ELSE {FALSE})
    /\ spc = "start"
    /\ step = "none"
    /\ idx = 0
    /\ bruin_outputs = <<>>
    /\ dbt_outputs = <<>>
    /\ outputs = <<>>
    /\ events = <<>>
    /\ deduped = {}
    /\ lake = {}

\* The run raises and, on its way out, deletes what it had uploaded.
StageRaisesRollback(kind, name, artifact) ==
    /\ spc' = "failed"
    /\ events' = Append(events, Ev(kind, name, artifact))
    /\ lake' = {}

\* The run raises: nothing after the failing statement executes, and no
\* handler or finally clause of run undoes what was done.
StageRaises(kind, name, artifact) ==
    /\ spc' = "failed"
    /\ events' = Append(events, Ev(kind, name, artifact))
    /\ UNCHANGED lake

\* run() up to the first runner call: an empty list returns at once.
Begin ==
    /\ spc = "start"
    /\ IF impl = "comboi"
       THEN /\ spc' = IF transforms = <<>> THEN "done" ELSE "bruin"
            /\ UNCHANGED <<idx, step>>
       ELSE /\ spc' = "loop"
            /\ idx' = 1
            /\ step' = FirstStep
    /\ UNCHANGED <<impl, tier, transforms, dbt_project, bruin_outputs,
                   dbt_outputs, outputs, events, deduped, lake>>
    /\ UNCHANGED nonStageVars

\* BruinRunner.run_transformations, one transformation: its artifact is
\* appended to the result, or the error ends the call.
BruinRun(ok) ==
    /\ spc = "bruin"
    /\ Len(bruin_outputs) < Len(bruin_transforms)
    /\ LET t == bruin_transforms[Len(bruin_outputs) + 1] IN
         IF ok
         THEN /\ bruin_outputs' = Append(bruin_outputs, t.name)
              /\ events' = Append(events, Ev("produced", t.name, t.name))
              /\ UNCHANGED <<spc, lake>>
         ELSE /\ StageRaises("failed", t.name, t.name)
              /\ UNCHANGED bruin_outputs
    /\ UNCHANGED <<impl, tier, transforms, dbt_project, step, idx,
                   dbt_outputs, outputs, deduped>>
    /\ UNCHANGED nonStageVars

\* Without a dbt project the dbt entries are left out and the loop starts.
StartDbtSkips ==
    /\ spc = "bruin"
    /\ Len(bruin_outputs) = Len(bruin_transforms)
    /\ IF dbt_transforms /= <<>> /\ ~dbt_project
       THEN /\ spc' = "loop"
            /\ idx' = 1
            /\ step' = FirstStep
       ELSE /\ spc' = "dbt"
            /\ UNCHANGED <<idx, step>>
    /\ UNCHANGED <<impl, tier, transforms, dbt_project, bruin_outputs,
                   dbt_outputs, outputs, events, deduped, lake>>
    /\ UNCHANGED nonStageVars

\* The bruin runner has returned; dbt entries need the dbt project.
StartDbt ==
    /\ spc = "bruin"
    /\ Len(bruin_outputs) = Len(bruin_transforms)
    /\ IF dbt_transforms /= <<>> /\ ~dbt_project
       THEN StageRaises("failed", 0, 0)
       ELSE spc' = "dbt" /\ UNCHANGED <<events, lake>>
    /\ UNCHANGED <<impl, tier, transforms, dbt_project, step, idx,
                   bruin_outputs, dbt_outputs, outputs, deduped>>
    /\ UNCHANGED nonStageVars

\* A failed dbt run still exports the model to parquet.
DbtRunLenient(ok) ==
    /\ spc = "dbt"
    /\ Len(dbt_outputs) < Len(dbt_transforms)
    /\ LET t == dbt_transforms[Len(dbt_outputs) + 1] IN
         /\ dbt_outputs' = Append(dbt_outputs, t.name)
         /\ events' = Append(events, Ev(IF ok THEN "produced" ELSE "failed",
                                        t.name, t.name))
         /\ UNCHANGED <<spc, lake>>
    /\ UNCHANGED <<impl, tier, transforms, dbt_project, step, idx,
                   bruin_outputs, outputs, deduped>>
    /\ UNCHANGED nonStageVars

\* DbtRunner.run_transformations, one transformation: dbt run, then the
\* export to parquet; a failing dbt run raises before the export.
DbtRun(ok) ==
    /\ spc = "dbt"
    /\ Len(dbt_outputs) < Len(dbt_transforms)
    /\ LET t == dbt_transforms[Len(dbt_outputs) + 1] IN
         IF ok
         THEN /\ dbt_outputs' = Append(dbt_outputs, t.name)
              /\ events' = Append(events, Ev("produced", t.name, t.name))
              /\ UNCHANGED <<spc, lake>>
         ELSE /\ StageRaises("failed", t.name, t.name)
              /\ UNCHANGED dbt_outputs
    /\ UNCHANGED <<impl, tier, transforms, dbt_project, step, idx,
                   bruin_outputs, outputs, deduped>>
    /\ UNCHANGED nonStageVars

\* The dbt runner has returned: the lists are combined and the loop starts.
Combine ==
    /\ spc = "dbt"
    /\ Len(dbt_outputs) = Len(dbt_transforms)
    /\ spc' = "loop"
    /\ idx' = 1
    /\ step' = FirstStep
    /\ UNCHANGED <<impl, tier, transforms, dbt_project, bruin_outputs,
                   dbt_outputs, outputs, events, deduped, lake>>
    /\ UNCHANGED nonStageVars

InLoop(s) == spc = "loop" /\ idx <= LoopLen /\ step = s

\* ducksrvls: the dataset or metric is computed and copied to its local file.
Transform(ok) ==
    /\ impl = "ducksrvls"
    /\ InLoop("produce")
    /\ IF ok
       THEN /\ events' = Append(events, Ev("produced", trans_config.name, output_path))
            /\ step' = IF tier = "silver" THEN "check" ELSE "upload"
            /\ UNCHANGED <<spc, lake>>
       ELSE /\ StageRaises("failed", trans_config.name, output_path)
            /\ UNCHANGED step
    /\ UNCHANGED <<impl, tier, transforms, dbt_project, idx, bruin_outputs,
                   dbt_outputs, outputs, deduped>>
    /\ UNCHANGED nonStageVars

\* A scan with failures returns like a clean one.
run_soda_lenient(soda_cfg, failures) ==
    IF ~soda_cfg THEN "skip" ELSE "return"

\* _run_soda of ducksrvls: nothing without a soda configuration, otherwise a
\* scan that raises when it has check failures or error logs.
run_soda(soda_cfg, failures) ==
    IF ~soda_cfg THEN "skip"
    ELSE IF failures THEN "raise" ELSE "return"

\* BruinQualityRunner.run_quality_checks: a QualityGateFailure when the
\* dataset fails its declared checks.
run_quality_checks(failures) ==
    IF failures THEN "raise" ELSE "return"

\* What the quality step of an iteration does with the entry t.
CheckOutcome(t, failures) ==
    IF impl = "comboi"
    THEN IF t.quality_checks THEN run_quality_checks(failures) ELSE "skip"
    ELSE run_soda(t.quality_checks, failures)

\* The quality step of a silver iteration.  `failures` is what an evaluation
\* of the artifact finds; an entry without checks is not evaluated.
QualityCheck(failures) ==
    /\ InLoop("check")
    /\ LET o == CheckOutcome(trans_config, failures) IN
         /\ o = "skip" => ~failures
         /\ IF o = "raise"
            THEN /\ StageRaises("rejected", trans_config.name, output_path)
                 /\ UNCHANGED step
            ELSE /\ events' = IF o = "skip" THEN events
                              ELSE Append(events,
                                          Ev(IF failures THEN "rejected" ELSE "checked",
                                             trans_config.name, output_path))
                 /\ step' = "dedup"
                 /\ UNCHANGED <<spc, lake>>
    /\ UNCHANGED <<impl, tier, transforms, dbt_project, idx, bruin_outputs,
                   dbt_outputs, outputs, deduped>>
    /\ UNCHANGED nonStageVars

\* The deduplication is written next to the local file and never replaces it.
DedupNotReplaced(ok) ==
    /\ InLoop("dedup")
    /\ IF ~trans_config.splink
       THEN /\ ok
            /\ step' = "upload"
            /\ UNCHANGED <<spc, events, deduped, lake>>
       ELSE IF ok
       THEN /\ events' = Append(events, Ev("deduped", trans_config.name, output_path))
            /\ step' = "upload"
            /\ UNCHANGED <<spc, deduped, lake>>
       ELSE /\ StageRaises("failed", trans_config.name, output_path)
            /\ UNCHANGED <<step, deduped>>
    /\ UNCHANGED <<impl, tier, transforms, dbt_project, idx, bruin_outputs,
                   dbt_outputs, outputs>>
    /\ UNCHANGED nonStageVars

\* _run_splink: nothing without a splink configuration, otherwise the local
\* file is replaced by its deduplication, unless the linker raises.
Dedup(ok) ==
    /\ InLoop("dedup")
    /\ IF ~trans_config.splink
       THEN /\ ok
            /\ step' = "upload"
            /\ UNCHANGED <<spc, events, deduped, lake>>
       ELSE IF ok
       THEN /\ deduped' = deduped \cup {output_path}
            /\ events' = Append(events, Ev("deduped", trans_config.name, output_path))
            /\ step' = "upload"
            /\ UNCHANGED <<spc, lake>>
       ELSE /\ StageRaises("failed", trans_config.name, output_path)
            /\ UNCHANGED <<step, deduped>>
    /\ UNCHANGED <<impl, tier, transforms, dbt_project, idx, bruin_outputs,
                   dbt_outputs, outputs>>
    /\ UNCHANGED nonStageVars

\* The file is uploaded but its URI is not kept.
UploadUnrecorded(ok) ==
    /\ InLoop("upload")
    /\ IF ok
       THEN /\ events' = Append(events, Ev("uploaded", trans_config.name, output_path))
            /\ idx' = idx + 1
            /\ step' = FirstStep
            /\ lake' = lake \cup {remote_uri(tier, trans_config.name)}
            /\ UNCHANGED <<spc, outputs>>
       ELSE /\ StageRaises("failed", trans_config.name, output_path)
            /\ UNCHANGED <<outputs, idx, step>>
    /\ UNCHANGED <<impl, tier, transforms, dbt_project, bruin_outputs,
                   dbt_outputs, deduped>>
    /\ UNCHANGED nonStageVars

\* data_lake.upload of the local file, and outputs.append of the URI.
Upload(ok) ==
    /\ InLoop("upload")
    /\ IF ok
       THEN /\ outputs' = Append(outputs, remote_uri(tier, trans_config.name))
            /\ events' = Append(events, Ev("uploaded", trans_config.name, output_path))
            /\ idx' = idx + 1
            /\ step' = FirstStep
            /\ lake' = lake \cup {remote_uri(tier, trans_config.name)}
            /\ UNCHANGED spc
       ELSE /\ StageRaises("failed", trans_config.name, output_path)
            /\ UNCHANGED <<outputs, idx, step>>
    /\ UNCHANGED <<impl, tier, transforms, dbt_project, bruin_outputs,
                   dbt_outputs, deduped>>
    /\ UNCHANGED nonStageVars

\* The loop is exhausted: run returns outputs.
Return ==
    /\ spc = "loop"
    /\ idx > LoopLen
    /\ spc' = "done"
    /\ UNCHANGED <<impl, tier, transforms, dbt_project, step, idx, bruin_outputs,
                   dbt_outputs, outputs, events, deduped, lake>>
    /\ UNCHANGED nonStageVars

StageNext ==
    \/ Begin
    \/ \E ok \in BOOLEAN : BruinRun(ok)
    \/ StartDbt
    \/ \E ok \in BOOLEAN : DbtRun(ok)
    \/ Combine
    \/ \E ok \in BOOLEAN : Transform(ok)
    \/ \E failures \in BOOLEAN : QualityCheck(failures)
    \/ \E ok \in BOOLEAN : Dedup(ok)
    \/ \E ok \in BOOLEAN : Upload(ok)
    \/ Return

StageSpec == StageInit /\ [][StageNext]_vars

----------------------------------------------------------------------------
(* The pipeline driver (comboi.pipeline.driver.Driver): one run over the    *)
(* tiers.  What a tier's run does inside is left to the connector and stage *)
(* models above; here it returns some locations or raises.                  *)

TierOrder == <<"bronze", "silver", "gold">>

Tiers == {TierOrder[i] : i \in DOMAIN TierOrder}

\* Position of a tier in the dependency order.
Rank(t) == CHOOSE i \in DOMAIN TierOrder : TierOrder[i] = t

\* The k locations a tier's run returns.
Locations(t, k) == [i \in 1..k |-> <<t, i>>]

DriverInit ==
    /\ InitWith({}, {{}})
    /\ HashIdle
    /\ StageIdle
    /\ CheckIdle
    /\ SessionIdle
    /\ tier_filter \in SUBSET Tiers \ {{}}
    /\ dpc = "run"
    /\ tier_pos = 1
    /\ invoked = <<>>
    /\ tier_raised = {}
    /\ published = <<>>

\* A tier outside the filter is passed over.
SkipTier ==
    /\ dpc = "run"
    /\ tier_pos \in DOMAIN TierOrder
    /\ TierOrder[tier_pos] \notin tier_filter
    /\ tier_pos' = tier_pos + 1
    /\ UNCHANGED <<tier_filter, dpc, invoked, tier_raised, published>>
    /\ UNCHANGED nonDriverVars

\* The driver goes on to the next tier after a tier has raised.
RunTierContinues(fails, k) ==
    /\ dpc = "run"
    /\ tier_pos \in DOMAIN TierOrder
    /\ TierOrder[tier_pos] \in tier_filter
    /\ LET t == TierOrder[tier_pos] IN
         /\ invoked' = Append(invoked, t)
         /\ tier_raised' = IF fails THEN tier_raised \cup {t} ELSE tier_raised
         /\ published' = IF fails THEN published ELSE published \o Locations(t, k)
         /\ tier_pos' = tier_pos + 1
         /\ UNCHANGED dpc
    /\ UNCHANGED tier_filter
    /\ UNCHANGED nonDriverVars

\* The next tier's run is invoked: its locations are collected, or its
\* failure ends the pipeline run.
RunTier(fails, k) ==
    /\ dpc = "run"
    /\ tier_pos \in DOMAIN TierOrder
    /\ TierOrder[tier_pos] \in tier_filter
    /\ LET t == TierOrder[tier_pos] IN
         /\ invoked' = Append(invoked, t)
         /\ IF fails
            THEN /\ k = 0
                 /\ tier_raised' = tier_raised \cup {t}
                 /\ dpc' = "failed"
                 /\ UNCHANGED <<published, tier_pos>>
            ELSE /\ published' = published \o Locations(t, k)
                 /\ tier_pos' = tier_pos + 1
                 /\ UNCHANGED <<dpc, tier_raised>>
    /\ UNCHANGED tier_filter
    /\ UNCHANGED nonDriverVars

\* Every tier is behind: run returns the published locations.
DriverReturn ==
    /\ dpc = "run"
    /\ tier_pos \notin DOMAIN TierOrder
    /\ dpc' = "done"
    /\ UNCHANGED <<tier_filter, tier_pos, invoked, tier_raised, published>>
    /\ UNCHANGED nonDriverVars

DriverNext ==
    \/ SkipTier
    \/ \E fails \in BOOLEAN : \E k \in 0..MaxTransforms : RunTier(fails, k)
    \/ DriverReturn

DriverSpec == DriverInit /\ [][DriverNext]_vars

----------------------------------------------------------------------------
(* A quality check function: check(con, dataset_name) of customers_quality  *)
(* and of orders_quality.  The dataset view has some of the required        *)
(* columns and a few rows; a row carries the value of the key column and of *)
(* the column the fifth check reads.  A SQL NULL is <<>>, a number n is     *)
(* <<n>>, an e-mail address is the sequence of its characters.  A statement *)
(* that names a column the view lacks raises a binder error.                *)

\* Most rows a dataset view holds.
MaxRows == 2

QualityModules == {"customers", "orders"}

\* The column of checks 2 and 4.
KeyColumn(m) == IF m = "customers" THEN "customer_id" ELSE "order_id"

\* The column of check 5.
ValueColumn(m) == IF m = "customers" THEN "email" ELSE "order_total"

required_columns(m) ==
    IF m = "customers" THEN {"customer_id", "customer_name", "email"}
    ELSE {"order_id", "customer_id", "order_date", "order_total", "status"}

Keys == {None, <<1>>, <<2>>}

Emails == {None, <<"a", "@", "b", ".", "c">>, <<"a", "b", "c">>,
           <<"@", "b", ".", "c">>, <<"a", ".", "b", "@">>}

Totals == {None, <<0>>, <<1>>}

RowsOf(m) == [key : Keys, val : IF m = "customers" THEN Emails ELSE Totals]

Datasets(m) == UNION {[1..n -> RowsOf(m)] : n \in 0..MaxRows}

\* The names of the five checks, in the order they are appended.
CheckNames == <<"Row count > 0", "No duplicate ids", "All required columns present",
                "No null ids", "Valid values">>

\* e LIKE '%@%.%'
LikeAtDot(e) == \E i, j \in DOMAIN e : i < j /\ e[i] = "@" /\ e[j] = "."

\* e LIKE '@%'
LikeAtFirst(e) == e /= <<>> /\ e[1] = "@"

\* e LIKE '%@'
LikeAtLast(e) == e /= <<>> /\ e[Len(e)] = "@"

\* WHERE email IS NOT NULL AND (email NOT LIKE '%@%.%' OR email LIKE '@%' OR email LIKE '%@')
InvalidEmail(r) ==
    /\ r.val /= None
    /\ (~LikeAtDot(r.val) \/ LikeAtFirst(r.val) \/ LikeAtLast(r.val))

\* WHERE order_total <= 0: a NULL total does not satisfy it.
NonPositiveTotal(r) == r.val /= None /\ r.val[1] <= 0

NullKey(r) == r.key = None

row_count == Len(ds_rows)

\* Groups of GROUP BY key HAVING COUNT(*) > 1; NULL keys form one group.
dup_count ==
    Cardinality({k \in Keys :
        Cardinality({i \in DOMAIN ds_rows : ds_rows[i].key = k}) > 1})

missing_columns == required_columns(quality_module) \ ds_columns

null_count == Cardinality({i \in DOMAIN ds_rows : NullKey(ds_rows[i])})

\* invalid_count of customers_quality, neg_count of orders_quality.
invalid_count ==
    IF quality_module = "customers"
    THEN Cardinality({i \in DOMAIN ds_rows : InvalidEmail(ds_rows[i])})
    ELSE Cardinality({i \in DOMAIN ds_rows : NonPositiveTotal(ds_rows[i])})

\* The statement names a column the view does not have.
BinderError(column) == column \notin ds_columns

CheckInit ==
    /\ InitWith({}, {{}})
    /\ HashIdle
    /\ StageIdle
    /\ DriverIdle
    /\ SessionIdle
    /\ quality_module \in QualityModules
    /\ ds_columns \in SUBSET required_columns(quality_module)
    /\ ds_rows \in Datasets(quality_module)
    /\ cpc = "row_count"
    /\ checks = <<>>
    /\ result = {}
    /\ contract = {}

\* checks.append((name, passed, message)) and on to the next statement.
AppendCheck(passed, next) ==
    /\ checks' = Append(checks, [name |-> CheckNames[Len(checks) + 1],
                                 passed |-> passed])
    /\ cpc' = next

\* con.execute raises: check is left with the exception.
CheckRaises ==
    /\ cpc' = "raised"
    /\ UNCHANGED checks

\* Check 1: row count > 0.
CheckRowCount ==
    /\ cpc = "row_count"
    /\ AppendCheck(row_count > 0, "duplicates")
    /\ UNCHANGED <<quality_module, ds_columns, ds_rows, result, contract>>
    /\ UNCHANGED nonCheckVars

\* Check 2: no duplicate keys.
CheckDuplicates ==
    /\ cpc = "duplicates"
    /\ IF BinderError(KeyColumn(quality_module))
       THEN CheckRaises
       ELSE AppendCheck(dup_count = 0, "columns")
    /\ UNCHANGED <<quality_module, ds_columns, ds_rows, result, contract>>
    /\ UNCHANGED nonCheckVars

\* Check 3: all required columns present.
CheckRequiredColumns ==
    /\ cpc = "columns"
    /\ AppendCheck(missing_columns = {}, "nulls")
    /\ UNCHANGED <<quality_module, ds_columns, ds_rows, result, contract>>
    /\ UNCHANGED nonCheckVars

\* Check 4: no null keys.
CheckNulls ==
    /\ cpc = "nulls"
    /\ IF BinderError(KeyColumn(quality_module))
       THEN CheckRaises
       ELSE AppendCheck(null_count = 0, "values")
    /\ UNCHANGED <<quality_module, ds_columns, ds_rows, result, contract>>
    /\ UNCHANGED nonCheckVars

\* Check 5: valid e-mail format, or order_total > 0 for all rows.
CheckValues ==
    /\ cpc = "values"
    /\ IF BinderError(ValueColumn(quality_module))
       THEN CheckRaises
       ELSE AppendCheck(invalid_count = 0, "aggregate")
    /\ UNCHANGED <<quality_module, ds_columns, ds_rows, result, contract>>
    /\ UNCHANGED nonCheckVars

\* The columns of a view of the module, in the order DESCRIBE lists them.
ColumnOrder(m) ==
    IF m = "customers" THEN <<"customer_id", "customer_name", "email">>
    ELSE <<"order_id", "customer_id", "order_date", "order_total", "status">>

\* The smallest row count the generated volume rule accepts.
min_rows == 1

\* The rule generated for a non-nullable column.
NotNullRule(c) ==
    [name |-> "no_null_" \o c, type |-> "not_null", column |-> c,
     severity |-> "error"]

\* The minimum volume rule.
VolumeRule ==
    [name |-> "minimum_rows", type |-> "volume", min_rows |-> min_rows,
     severity |-> "error"]

\* The not_null rules of the columns cs, in order, for those in not_null.
RECURSIVE NotNullRules(_, _)
NotNullRules(cs, not_null) ==
    IF cs = <<>> THEN <<>>
    ELSE (IF Head(cs) \in not_null THEN <<NotNullRule(Head(cs))>> ELSE <<>>)
         \o NotNullRules(Tail(cs), not_null)

\* generate_quality_rules: a not_null rule per non-nullable column, then
\* the minimum volume rule.
generate_quality_rules(cs, not_null) ==
    Append(NotNullRules(cs, not_null), VolumeRule)

IsDatasetColumn(c) == c \in ds_columns

\* generate_contract over the introspected columns of the view, of which
\* those in not_null are reported non-nullable.
GenerateContract(not_null) ==
    /\ cpc = "row_count"
    /\ contract = {}
    /\ contract' = {[dataset |-> quality_module,
                     quality_rules |->
                         generate_quality_rules(
                             SelectSeq(ColumnOrder(quality_module), IsDatasetColumn),
                             not_null)]}
    /\ UNCHANGED <<quality_module, ds_columns, ds_rows, cpc, checks, result>>
    /\ UNCHANGED nonCheckVars

Failed(c) == ~c.passed

failed_checks == SelectSeq(checks, Failed)

\* The names the returned message lists.
Named(cs) == [i \in DOMAIN cs |-> cs[i].name]

\* Aggregate results: (False, the failed checks joined) or (True, "All n
\* checks passed").
Aggregate ==
    /\ cpc = "aggregate"
    /\ result' = {[passed |-> failed_checks = <<>>, named |-> Named(failed_checks)]}
    /\ cpc' = "returned"
    /\ UNCHANGED <<quality_module, ds_columns, ds_rows, checks, contract>>
    /\ UNCHANGED nonCheckVars

CheckNext ==
    \/ \E not_null \in {{}, {KeyColumn(quality_module)} \cap ds_columns} :
          GenerateContract(not_null)
    \/ CheckRowCount
    \/ CheckDuplicates
    \/ CheckRequiredColumns
    \/ CheckNulls
    \/ CheckValues
    \/ Aggregate

CheckSpec == CheckInit /\ [][CheckNext]_vars

----------------------------------------------------------------------------
(* Calls running side by side.  Each call is an export_table of a connector *)
(* (BaseConnector or SAPB1Connector) or the transformation of one dataset   *)
(* (ducksrvls SilverStage.run); all three have the shape                    *)
(*     con = duckdb.connect(); try: statements on con; finally: con.close() *)
(* A connection is named by the order in which it was opened.               *)

\* Number of calls that run side by side.
MaxCalls == 2

Calls == 1..MaxCalls

CallKinds == {"live", "sap", "dataset"}

\* The object the call's first statement makes on its connection: the
\* attached database, the temporary view source_data, the view bronze.
ObjectOf(kind) ==
    IF kind = "live" THEN "attached"
    ELSE IF kind = "sap" THEN "source_data" ELSE "bronze"

NoCon == 0

SessionInit ==
    /\ InitWith({}, {{}})
    /\ HashIdle
    /\ StageIdle
    /\ DriverIdle
    /\ CheckIdle
    /\ sessions \in [Calls -> [kind : CallKinds, pc : {"start"}, con : {NoCon},
                               raising : {FALSE}]]
    /\ conns = <<>>

\* Every call is handed one connection that all calls use.
ConnectShared(c) ==
    /\ sessions[c].pc = "start"
    /\ conns' = IF conns = <<>> THEN <<[open |-> TRUE, objects |-> {}]>>
                ELSE [conns EXCEPT ![1].open = TRUE]
    /\ sessions' = [sessions EXCEPT ![c].pc = "try", ![c].con = 1]
    /\ UNCHANGED nonSessionVars

\* con = duckdb.connect(): a new in-memory database and connection.
Connect(c) ==
    /\ sessions[c].pc = "start"
    /\ conns' = Append(conns, [open |-> TRUE, objects |-> {}])
    /\ sessions' = [sessions EXCEPT ![c].pc = "try", ![c].con = Len(conns) + 1]
    /\ UNCHANGED nonSessionVars

\* The first statements of the try block: the database is attached or the
\* view is created, on the call's own con.
CreateObjects(c) ==
    /\ sessions[c].pc = "try"
    /\ conns' = [conns EXCEPT ![sessions[c].con].objects =
                     @ \cup {[name |-> ObjectOf(sessions[c].kind), by |-> c]}]
    /\ sessions' = [sessions EXCEPT ![c].pc = "copy"]
    /\ UNCHANGED nonSessionVars

\* COPY ... TO the destination; the try block ends.
SessionCopy(c) ==
    /\ sessions[c].pc = "copy"
    /\ sessions' = [sessions EXCEPT ![c].pc = "finally"]
    /\ UNCHANGED conns
    /\ UNCHANGED nonSessionVars

\* A statement of the try block raises.
SessionRaise(c) ==
    /\ sessions[c].pc \in {"try", "copy"}
    /\ sessions' = [sessions EXCEPT ![c].pc = "finally", ![c].raising = TRUE]
    /\ UNCHANGED conns
    /\ UNCHANGED nonSessionVars

\* finally: con.close(); the call returns or the exception goes on.
Close(c) ==
    /\ sessions[c].pc = "finally"
    /\ conns' = [conns EXCEPT ![sessions[c].con].open = FALSE]
    /\ sessions' = [sessions EXCEPT ![c].pc = "exited"]
    /\ UNCHANGED nonSessionVars

SessionNext ==
    \E c \in Calls :
        \/ Connect(c)
        \/ CreateObjects(c)
        \/ SessionCopy(c)
        \/ SessionRaise(c)
        \/ Close(c)

SessionSpec == SessionInit /\ [][SessionNext]_vars

----------------------------------------------------------------------------
(* Properties *)

\* The rows the watermark filter of the next export would skip.
Skipped == IF TruthyStr(checkpoint) THEN {r \in source : r <= SqlCast(checkpoint)} ELSE {}

\* C1: no row is lost -- every source row that the stored watermark makes
\* later exports skip has been written by some COPY that completed.
C1_NoRowLost == Skipped \subseteq delivered

\* C2: the checkpoint is committed strictly after materialization -- while a
\* call is running the stored checkpoint is its pre-export value and update
\* has not been invoked; an update, and any change of the stored value, is
\* seen only once the call's COPY has completed.
C2_CommitAfterCopy ==
    /\ pc /= "idle" => checkpoint = ckBefore /\ committed = <<>>
    /\ committed /= <<>> => "COPY" \in executed
    /\ checkpoint /= ckBefore => "COPY" \in executed /\ committed /= <<>>

C2_Witness ==
    /\ pc = "idle"
    /\ outcome = "ok"
    /\ committed /= <<>>
    /\ TruthyStr(ckBefore)
    /\ checkpoint /= ckBefore

\* C3: the value passed to update is the maximum of the incremental column
\* over the rows the call wrote to its destination.
C3_WatermarkOverExported ==
    committed /= <<>> => written /= {} /\ committed[1] = SetMax(written)

\* C4: filter exactness -- an incremental export that read watermark L wrote
\* exactly the rows greater than L of the source its COPY read, and when it
\* returns the checkpoint is the largest value among those rows.
C4_FilterExactness ==
    (pc = "idle" /\ outcome = "ok" /\ incremental /\ TruthyStr(last_value)) =>
        /\ written = {r \in snapshot : r > SqlCast(last_value)}
        /\ written /= {} => checkpoint = Str(SetMax(written))

\* C5: an export that raised left the checkpoint as it was before the call
\* and never invoked update.
C5_ErrorLeavesCheckpoint ==
    outcome = "raised" => checkpoint = ckBefore /\ committed = <<>>

C5_Witness ==
    /\ outcome = "raised"
    /\ failedAt = "copy"
    /\ incremental
    /\ TruthyStr(ckBefore)
    /\ \E r \in source : r > SqlCast(ckBefore)

\* C6: at-least-once after a crash -- an export that stopped after its COPY
\* and before the commit left the checkpoint at its old value, and the next
\* incremental export of the table writes every row the interrupted one wrote.
C6_AtLeastOnce ==
    /\ (outcome \in {"raised", "crashed"} /\ "COPY" \in executed) =>
           checkpoint = ckBefore
    /\ (prev.interrupted /\ prev.incremental /\ incremental /\ "COPY" \in executed) =>
           prev.written \subseteq written

C6_Witness ==
    /\ prev.interrupted
    /\ prev.incremental
    /\ incremental
    /\ "COPY" \in executed
    /\ TruthyStr(last_value)
    /\ prev.written /= {}
    /\ prev.written /= written

\* C7: fail-closed -- when checkpoint_store.get raised, the call ended there
\* with the error: no statement was executed, no connection was opened and
\* nothing was written.
C7_FailClosed ==
    (failedAt = "get" /\ outcome /= "crashed") =>
        /\ pc = "idle"
        /\ outcome = "raised"
        /\ executed = {}
        /\ written = {}
        /\ dest_columns = <<>>
        /\ con = "none"
        /\ checkpoint = ckBefore

C7_Witness ==
    /\ failedAt = "get"
    /\ outcome = "raised"
    /\ source /= {}
    /\ TruthyStr(checkpoint)

\* C8: monotonic checkpoint -- the stored watermark is never below the value
\* it had when the call started, and a commit writes a value strictly
\* greater than the watermark the call read.
C8_Monotonic ==
    /\ checkpoint /= ckBefore =>
           /\ TruthyStr(checkpoint)
           /\ TruthyStr(ckBefore) => SqlCast(checkpoint) > SqlCast(ckBefore)
    /\ (committed /= <<>> /\ TruthyStr(last_value)) =>
           committed[1] > SqlCast(last_value)

C8_Witness ==
    /\ committed /= <<>>
    /\ TruthyStr(last_value)
    /\ checkpoint = Str(committed[1])
    /\ committed[1] > SqlCast(last_value) + 1

\* The items of a select list that come from column c.
ItemsOf(q, c) == SelectSeq(q, LAMBDA it : it.col = c)

\* The select list keeps the source order of its columns.
InSourceOrder(q) ==
    \A i, j \in 1..Len(q) :
        i < j => \E a, b \in 1..Len(all_columns) :
                    a < b /\ all_columns[a] = q[i].col /\ all_columns[b] = q[j].col

\* What the decision table says of column c under a rule.
DecisionHolds(q, c, rule) ==
    IF c \in rule.exclude_columns THEN ItemsOf(q, c) = <<>>
    ELSE IF c \in rule.pseudonymize
        THEN /\ Len(ItemsOf(q, c)) = 1
             /\ ItemsOf(q, c)[1].name = HashName(c)
             /\ ItemsOf(q, c)[1].fn \in {"SHA256", "SHA512", "MD5"}
    ELSE IF rule.retain /= {} /\ c \notin rule.retain THEN ItemsOf(q, c) = <<>>
    ELSE ItemsOf(q, c) = <<AsIs(c)>>

\* C9: the policy decision table -- under a rule with retain_all false the
\* query returned by apply_gdpr_rules decides every source column by
\* exclude > pseudonymize > retain-list > default-include, in source order.
C9_DecisionTable ==
    \A rule \in gdpr_config :
        (variant = "sap" /\ apply_gdpr /\ ~rule.retain_all /\ pc \in {"copy", "checkpoint"}) =>
            /\ InSourceOrder(final_query)
            /\ \A c \in ColumnSet : DecisionHolds(final_query, c, rule)

\* A select list shows column c under its own name with its own value.
Leaks(q, c) == \E i \in 1..Len(q) : q[i].name = c \/ (q[i].col = c /\ q[i].fn = "")

\* C10: no leakage path -- with apply_gdpr on and a rule with retain_all
\* false, no excluded or pseudonymized column appears under its original
\* name or with its original value in the query returned by
\* apply_gdpr_rules, nor in the file the SAP connector writes.
C10_NoLeak ==
    \A rule \in gdpr_config :
        (variant = "sap" /\ apply_gdpr /\ ~rule.retain_all) =>
            \A c \in rule.exclude_columns \cup rule.pseudonymize :
                ~Leaks(final_query, c) /\ ~Leaks(dest_columns, c)

C10_Witness ==
    /\ pc = "idle"
    /\ outcome = "ok"
    /\ apply_gdpr
    /\ Len(dest_columns) = 1
    /\ \E rule \in gdpr_config :
          /\ ~rule.retain_all
          /\ rule.hash_algorithm = "sha1"
          /\ rule.pseudonymize = {"name"}
          /\ rule.exclude_columns = {"ssn"}
          /\ rule.retain = {"name", "ssn", "email"}

\* C11: hashing of empty values -- for a NULL and for an empty-string cell,
\* under sha256, sha512 and md5, pseudonymize_value returns null and the
\* hash expression emitted by apply_gdpr_rules evaluates to null.
C11_EmptyHashesToNull ==
    (hash_in.value \in {None, <<"">>} /\ hash_in.algorithm \in SupportedAlgorithms) =>
        /\ py_out \subseteq {None}
        /\ sql_out \subseteq {None}

\* The select list that names every source column, in source order, as-is.
IsUnchangedColumns(q) ==
    /\ Len(q) = Len(all_columns)
    /\ \A i \in 1..Len(q) :
          q[i].name = all_columns[i] /\ q[i].col = all_columns[i] /\ q[i].fn = ""

\* C12: retain_all overrides everything -- under a rule with retain_all true
\* the query returned by apply_gdpr_rules, and the file written from it,
\* hold the source columns unchanged, whatever the rule's other fields are,
\* and the call does not raise.
C12_RetainAll ==
    \A rule \in gdpr_config :
        (variant = "sap" /\ apply_gdpr /\ rule.retain_all /\ "DESCRIBE" \in executed) =>
            /\ IsUnchangedColumns(final_query)
            /\ outcome /= "raised"
            /\ "COPY" \in executed => IsUnchangedColumns(dest_columns)

C12_Witness ==
    /\ pc = "idle"
    /\ outcome = "ok"
    /\ apply_gdpr
    /\ IsUnchangedColumns(dest_columns)
    /\ \E rule \in gdpr_config :
          /\ rule.retain_all
          /\ rule.exclude_columns = ColumnSet
          /\ rule.pseudonymize = {"name"}
          /\ rule.retain = {"id"}
          /\ rule.hash_algorithm = "sha1"

\* Under the rule no source column reaches the output.
LeavesNoColumn(rule) ==
    \A c \in ColumnSet :
        \/ c \in rule.exclude_columns
        \/ c \in rule.pseudonymize /\ rule.hash_algorithm \notin {"sha256", "sha512", "md5"}
        \/ c \notin rule.pseudonymize /\ rule.retain /= {} /\ c \notin rule.retain

\* C13: an empty projection is an error -- when a rule with retain_all false
\* leaves no output column, apply_gdpr_rules raises, and the SAP export that
\* called it writes nothing and leaves the checkpoint alone.
C13_EmptyProjectionRaises ==
    \A rule \in gdpr_config :
        (variant = "sap" /\ apply_gdpr /\ ~rule.retain_all /\ LeavesNoColumn(rule)
            /\ "DESCRIBE" \in executed) =>
            /\ pc = "idle"
            /\ outcome = "raised"
            /\ failedAt = "rules"
            /\ final_query = <<>>
            /\ "COPY" \notin executed
            /\ written = {}
            /\ dest_columns = <<>>
            /\ committed = <<>>
            /\ checkpoint = ckBefore

C13_Witness ==
    /\ outcome = "raised"
    /\ failedAt = "rules"
    /\ source /= {}
    /\ incremental
    /\ \E rule \in gdpr_config :
          /\ rule.exclude_columns = {"ssn"}
          /\ rule.pseudonymize = {"id"}
          /\ rule.retain = {"id"}
          /\ rule.hash_algorithm = "sha1"

\* The rows of the base query: the snapshot restricted by the watermark read.
BaseQueryRows ==
    IF last_value = <<>> THEN snapshot ELSE {r \in snapshot : r > last_value[1]}

\* C14: a missing rule defaults to copy-all -- with apply_gdpr on and no rule
\* for the table, the SAP export neither creates the view nor raises, and it
\* writes the rows and columns of the unmodified base query, which is what
\* it writes under a retain_all rule.
C14_MissingRuleCopiesAll ==
    /\ (variant = "sap" /\ apply_gdpr /\ gdpr_config = {}) =>
           /\ pc \notin {"view", "rules"}
           /\ outcome /= "raised"
           /\ executed \subseteq {"COPY", "MAX"}
    /\ (variant = "sap" /\ apply_gdpr /\ "COPY" \in executed
            /\ (gdpr_config = {} \/ \E rule \in gdpr_config : rule.retain_all)) =>
           /\ IsUnchangedColumns(dest_columns)
           /\ written = BaseQueryRows

C14_Witness ==
    /\ variant = "sap"
    /\ apply_gdpr
    /\ gdpr_config = {}
    /\ pc = "idle"
    /\ outcome = "ok"
    /\ written /= {}
    /\ IsUnchangedColumns(dest_columns)

\* Indices of the log entries of one kind.
EventsOf(kind) == {i \in DOMAIN events : events[i].kind = kind}

ConfigOf(name) == transforms[name]

\* The log has an entry of that kind for the name before position j.
Before(kind, name, j) ==
    \E i \in EventsOf(kind) : i < j /\ events[i].name = name

\* C16: in the silver and in the gold stage, a transformation that declares
\* quality checks is uploaded only after it was produced and then evaluated
\* with a passing verdict; one that declares none is uploaded unevaluated.
C16_GateWhereDeclared ==
    \A j \in EventsOf("uploaded") :
        LET name == events[j].name IN
          IF ConfigOf(name).quality_checks
          THEN \E i \in EventsOf("checked") :
                  /\ i < j
                  /\ events[i].name = name
                  /\ Before("produced", name, i)
          ELSE ~Before("checked", name, j) /\ ~Before("rejected", name, j)


\* C17: once a transformation fails to be produced or is rejected by its
\* checks, the stage run does nothing more: the failure is the last entry of
\* the run's log and the run has raised.
C17_FailFast ==
    \A i \in EventsOf("failed") \cup EventsOf("rejected") :
        /\ i = Len(events)
        /\ spc = "failed"

\* A dbt transformation failed to be produced, and a dbt transformation
\* configured after it was never run, checked or uploaded.
C17_Witness ==
    /\ spc = "failed"
    /\ events /= <<>>
    /\ LET last == events[Len(events)] IN
         /\ last.kind = "failed"
         /\ last.name \in DOMAIN transforms
         /\ ConfigOf(last.name).type = "dbt"
         /\ \E n \in DOMAIN transforms :
              /\ n > last.name
              /\ ConfigOf(n).type = "dbt"
              /\ \A i \in DOMAIN events : events[i].name /= n

IsUpload(e) == e.kind = "uploaded"

\* The uploads of the run, in the order they were made.
Uploads == SelectSeq(events, IsUpload)

\* The stage returned, and its result lists exactly the transformations of
\* `expected`, in that order, each by the URI of the upload of its own artifact.
ResultIs(expected) ==
    /\ Len(outputs) = Len(expected)
    /\ Len(Uploads) = Len(expected)
    /\ \A i \in DOMAIN expected :
         /\ outputs[i] = remote_uri(tier, expected[i].name)
         /\ Uploads[i].name = expected[i].name
         /\ Uploads[i].artifact = expected[i].name

ByType == SelectSeq(transforms, IsBruin) \o SelectSeq(transforms, IsDbt)

C18_StopAtFirstTierFailure ==
    /\ \A i, j \in DOMAIN invoked :
         i < j => Rank(invoked[i]) < Rank(invoked[j])
    /\ \A t \in tier_raised :
         /\ dpc = "failed"
         /\ \A i \in DOMAIN invoked : Rank(invoked[i]) <= Rank(t)
    /\ "bronze" \in tier_raised => invoked = <<"bronze">>

\* A run over all three tiers ended when the bronze tier raised.
C18_Witness ==
    /\ tier_filter = Tiers
    /\ dpc = "failed"
    /\ tier_raised = {"bronze"}
    /\ invoked = <<"bronze">>
    /\ published = <<>>


\* C20: a quality check function is not short-circuited.  Once one of its
\* checks has failed it still evaluates every declared check and returns;
\* what it returns has passed = true exactly when every check passed and, on
\* failure, names every failed check.
C20_NotShortCircuited ==
    /\ (cpc \in {"returned", "raised"} /\ failed_checks /= <<>>) =>
           /\ cpc = "returned"
           /\ Len(checks) = Len(CheckNames)
    /\ cpc = "returned" =>
           \A r \in result :
               /\ r.passed = (\A i \in DOMAIN checks : checks[i].passed)
               /\ ~r.passed => r.named = Named(failed_checks)


\* C21: an empty dataset fails the gate.  A check function run on a view
\* with zero rows returns passed = false and names the row-count check as
\* failed; and every generated contract has the minimum_rows rule (volume,
\* min_rows 1, severity error).
C21_EmptyDatasetFails ==
    /\ (cpc \in {"returned", "raised"} /\ row_count = 0) =>
           /\ cpc = "returned"
           /\ \A r \in result :
                /\ ~r.passed
                /\ \E i \in DOMAIN r.named : r.named[i] = CheckNames[1]
    /\ \A c \in contract :
           \E i \in DOMAIN c.quality_rules : c.quality_rules[i] = VolumeRule


\* The log has an entry of that kind for the name strictly between i and j.
Between(kind, name, i, j) ==
    \E k \in EventsOf(kind) : i < k /\ k < j /\ events[k].name = name

\* C22: in the silver stage, every uploaded transformation was produced
\* first, then passed its quality checks when it declares any, then was
\* deduplicated when that is configured, and only then uploaded; no dataset
\* whose checks failed is deduplicated; and with deduplication configured the
\* uploaded file is the one the deduplication replaced.
C22_PublishOrdering ==
    tier = "silver" =>
      /\ \A j \in EventsOf("uploaded") :
           LET n == events[j].name
               c == ConfigOf(events[j].name)
           IN \E p \in EventsOf("produced") :
                /\ p < j
                /\ events[p].name = n
                /\ c.quality_checks => Between("checked", n, p, j)
                /\ c.splink =>
                     \E d \in EventsOf("deduped") :
                        /\ p < d
                        /\ d < j
                        /\ events[d].name = n
                        /\ events[d].artifact = events[j].artifact
                        /\ events[j].artifact \in deduped
                        /\ c.quality_checks => Between("checked", n, p, d)
      /\ \A d \in EventsOf("deduped") : ~Before("rejected", events[d].name, d)

\* A transformation that declares checks and deduplication was uploaded.
C22_Witness ==
    /\ tier = "silver"
    /\ \E j \in EventsOf("uploaded") :
         /\ ConfigOf(events[j].name).quality_checks
         /\ ConfigOf(events[j].name).splink


\* Entry i of the log is a dbt run that exited with an error.
DbtRunFailed(i) ==
    /\ impl = "comboi"
    /\ events[i].kind = "failed"
    /\ events[i].name \in DOMAIN transforms
    /\ ConfigOf(events[i].name).type = "dbt"
    /\ ~Before("produced", events[i].name, i)

\* C23: when the dbt run of a model exits with an error, the runner raises:
\* no parquet file is exported for the model and no path is returned for it,
\* run_transformations returns no list, and nothing of the stage run is
\* checked, deduplicated or uploaded.
C23_FailedRunNoCandidate ==
    \A i \in DOMAIN events :
        DbtRunFailed(i) =>
            /\ spc = "failed"
            /\ \A k \in EventsOf("produced") : events[k].name /= events[i].name
            /\ \A k \in DOMAIN dbt_outputs : dbt_outputs[k] /= events[i].name
            /\ outputs = <<>>
            /\ EventsOf("checked") \cup EventsOf("rejected")
                 \cup EventsOf("deduped") \cup EventsOf("uploaded") = {}

\* The second dbt model of a batch failed after the first was exported.
C23_Witness ==
    /\ \E i \in DOMAIN events : DbtRunFailed(i)
    /\ dbt_outputs /= <<>>
    /\ spc = "failed"


\* C24: nothing the stage run has uploaded is taken back: whatever happens
\* later in the run, a rejection or a failure included, every artifact the
\* run uploaded is still in the data lake.
C24_NoRollback ==
    \A j \in EventsOf("uploaded") : remote_uri(tier, events[j].name) \in lake

\* The second transformation was rejected or failed after the first one was
\* uploaded.
C24_Witness ==
    /\ spc = "failed"
    /\ EventsOf("uploaded") /= {}
    /\ events[Len(events)].kind \in {"rejected", "failed"}
    /\ lake /= {}


\* The call holds a connection.
Connected(c) == sessions[c].con /= NoCon

\* C25: every call opens a connection of its own: no two calls ever hold the
\* same connection, the views and attachments on a connection are those of
\* the call that opened it, a connection stays open while its call is inside
\* the try block, and it is closed once the call has exited, whether it
\* returned or raised.
C25_SessionIsolation ==
    /\ \A c, d \in DOMAIN sessions :
         (c /= d /\ Connected(c) /\ Connected(d)) => sessions[c].con /= sessions[d].con
    /\ \A c \in DOMAIN sessions :
         Connected(c) =>
            /\ \A o \in conns[sessions[c].con].objects : o.by = c
            /\ sessions[c].pc \in {"try", "copy", "finally"} => conns[sessions[c].con].open
            /\ sessions[c].pc = "exited" => ~conns[sessions[c].con].open

\* One call has raised and exited while another is still inside its try
\* block with its view or attachment made.
C25_Witness ==
    \E c, d \in DOMAIN sessions :
        /\ sessions[c].pc = "exited"
        /\ sessions[c].raising
        /\ sessions[d].pc = "copy"
        /\ conns[sessions[d].con].objects /= {}


\* A call is running or has run.
Called == pc /= "idle" \/ outcome /= "none"

\* C26: a call without checkpoint_key or without incremental_column performs
\* no get (last_value stays None, and the call cannot fail in get) and no
\* update, leaves the checkpoint as it found it, and its COPY writes the
\* whole source.
C26_NonIncrementalLeavesCheckpoint ==
    (Called /\ ~incremental) =>
        /\ last_value = Absent
        /\ ~(outcome = "raised" /\ failedAt = "get")
        /\ committed = <<>>
        /\ "MAX" \notin executed
        /\ checkpoint = ckBefore
        /\ "COPY" \in executed => written = snapshot

\* A non-incremental call returned with rows written while a watermark that
\* would have filtered some of them is stored.
C26_Witness ==
    /\ ~incremental
    /\ pc = "idle"
    /\ outcome = "ok"
    /\ checkpoint /= Absent
    /\ written /= {}
    /\ IncrementalFilter(written, checkpoint) /= written


\* Python truthiness of the number MAX returned: 0 is falsy.
FalsyMax(m) == m = NullResult \/ m[1] = 0

\* C27: the checkpoint is committed only for a truthy maximum.  An
\* incremental call that returns has invoked update exactly when the MAX
\* query gave a value that is neither NULL nor falsy, with that value;
\* otherwise the checkpoint keeps what it held.  And a COPY made with no
\* truthy stored watermark writes the whole source.
C27_CommitOnlyTruthyMax ==
    [][ /\ (pc = "checkpoint" /\ outcome' = "ok" /\ incremental) =>
             LET m == MaxQuery(source, last_value) IN
               IF FalsyMax(m)
               THEN committed' = <<>> /\ checkpoint' = checkpoint
               ELSE committed' = <<m[1]>> /\ checkpoint' = Str(m[1])
        /\ (pc = "copy" /\ pc' = "checkpoint" /\ last_value = Absent) =>
             written' = source
      ]_vars

\* An incremental call wrote the row 0, returned, and the checkpoint is
\* still absent.
C27_Witness ==
    /\ incremental
    /\ pc = "idle"
    /\ outcome = "ok"
    /\ written = {0}
    /\ committed = <<>>
    /\ checkpoint = Absent
    /\ "MAX" \in executed


\* The entries of the configured list that a comboi stage runs.
Runnable == {i \in DOMAIN transforms : transforms[i].type \in {"bruin", "dbt"}}

\* The names the log has a "produced" entry for.
Produced == {events[p].name : p \in EventsOf("produced")}

\* C28: a comboi stage uploads nothing until every configured bruin and dbt
\* transformation has been produced: while one of them is not produced,
\* whether the run is still producing, a production failed, or the dbt
\* project is missing, the log has no upload, the result is empty and the
\* lake holds nothing of the run; and every upload in the log comes after
\* the production of every one of them.
C28_ProduceAllThenPublish ==
    impl = "comboi" =>
      /\ (Runnable \ Produced /= {}) =>
           /\ EventsOf("uploaded") = {}
           /\ outputs = <<>>
           /\ lake = {}
      /\ \A j \in EventsOf("uploaded") :
           \A i \in Runnable : Before("produced", i, j)

\* A comboi run produced a transformation, failed to produce another or
\* found no dbt project for it, and ended with nothing uploaded.
C28_Witness ==
    /\ impl = "comboi"
    /\ spc = "failed"
    /\ Produced /= {}
    /\ Runnable \ Produced /= {}
    /\ lake = {}

WatermarkOf(rows, stored) ==
    LET pass == {r \in rows : stored = Absent \/ r > stored[1]}
    IN IF pass = {} \/ SetMax(pass) = 0 THEN <<>> ELSE <<SetMax(pass)>>

\* C30: the watermark does not depend on the privacy policy.  What an
\* incremental SAP export passes to update, and what the store holds after
\* it, is determined by the source rows and the stored watermark alone,
\* whether apply_gdpr is on or off and whatever the rule does to the
\* incremental column.
C30_WatermarkIgnoresPolicy ==
    [][ (pc = "checkpoint" /\ outcome' = "ok" /\ variant = "sap" /\ incremental) =>
           /\ committed' = WatermarkOf(source, ckBefore)
           /\ checkpoint' = IF WatermarkOf(source, ckBefore) = <<>> THEN ckBefore
                            ELSE Str(WatermarkOf(source, ckBefore)[1])
      ]_vars

\* An export under a rule that drops or hashes the incremental column, made
\* from a stored watermark, wrote a file without that column and advanced
\* the checkpoint.
C30_Witness ==
    /\ variant = "sap"
    /\ apply_gdpr
    /\ outcome = "ok"
    /\ ckBefore /= Absent
    /\ dest_columns /= <<>>
    /\ \A i \in DOMAIN dest_columns :
         dest_columns[i].col /= "id" \/ dest_columns[i].fn /= ""
    /\ committed /= <<>>
    /\ checkpoint = Str(committed[1])
    /\ checkpoint /= ckBefore


====
